---- MODULE Spec2Model ----
(***************************************************************************)
(* Model of src/src/lib.rs: the extension trait TrimMatchesExactlyExt for  *)
(* str, with its two methods trim_left_matches_exactly and                 *)
(* trim_right_matches_exactly.                                             *)
(*                                                                         *)
(* A text is a sequence of one-byte characters, so a byte offset is a      *)
(* sequence index (offset k lies before element k+1).  The pattern is a    *)
(* literal &str; a single character is the literal of length one.  The     *)
(* searcher is core::str::pattern::StrSearcher, which lib.rs builds with   *)
(* into_searcher and advances with next / next_back.                       *)
(***************************************************************************)
EXTENDS Integers, Sequences, FiniteSets, TLC

\* text, pat, count: the arguments self, pat and count of the call
\* dir:      which method runs, "left" or "right"
\* matcher:  the searcher (let mut matcher)
\* trim_idx: the trim boundary (let mut trim_idx)
\* i:        iterations of the for loop completed
\* step:     the SearchStep the last call of next / next_back returned
\* steps:    how many times next / next_back has been called
\* pc:       "loop" while the call runs, "done" once it has returned
\* result:   the value returned
VARIABLES text, pat, count, dir, matcher, trim_idx, i, step, steps, pc, result

vars == <<text, pat, count, dir, matcher, trim_idx, i, step, steps, pc, result>>

\* ------------------------------------------------------------------ bounds
MaxTextLen == 5
MaxPatLen == 2
MaxCount == 3

Alphabet == {"a", "b"}

SeqsUpTo(n) == UNION {[1..k -> Alphabet] : k \in 0..n}

Texts == SeqsUpTo(MaxTextLen)
Patterns == SeqsUpTo(MaxPatLen)
Counts == 0..MaxCount

\* ------------------------------------------------------- str and SearchStep
\* str::slice_unchecked(begin, end): the bytes at offsets begin..end.
slice_unchecked(s, begin, end) == SubSeq(s, begin + 1, end)

Match(a, b) == [kind |-> "Match", a |-> a, b |-> b]
Reject(a, b) == [kind |-> "Reject", a |-> a, b |-> b]
Done == [kind |-> "Done", a |-> 0, b |-> 0]
\* No step taken yet.
NoStep == [kind |-> "None", a |-> 0, b |-> 0]

Ok(v) == [tag |-> "Ok", val |-> v]
Err(v) == [tag |-> "Err", val |-> v]
NoResult == [tag |-> "None", val |-> <<>>]

\* ------------------------------------------------------------- the searcher
\* pat.into_searcher(self) for a literal pattern: the empty needle gets the
\* EmptyNeedle cursor, any other needle the Two-Way cursor.
into_searcher(P, T) ==
    [haystack |-> T, needle |-> P,
     impl |-> IF P = <<>> THEN "Empty" ELSE "TwoWay",
     position |-> 0, end |-> Len(T),
     is_match_fw |-> TRUE, is_match_bw |-> TRUE]

\* matcher.next(): the set of (step, searcher after the step) the searcher
\* can produce.  The empty needle alternates a zero-length Match with the
\* Reject of one character and ends with Done.  The Two-Way cursor reports
\* Done at the end of the haystack, Match(p, p + len) when the needle stands
\* at its position p, and otherwise rejects a span starting at p; how far
\* that span reaches is decided by the algorithm's shift, and the trimmer
\* discards it, so every end in p+1..len is allowed.
next(m) ==
    LET h == m.haystack
        n == m.needle
        p == m.position
    IN  IF m.impl = "Empty"
        THEN LET m1 == [m EXCEPT !.is_match_fw = ~m.is_match_fw]
             IN  IF m.is_match_fw THEN {[step |-> Match(p, p), m |-> m1]}
                 ELSE IF p >= Len(h) THEN {[step |-> Done, m |-> m1]}
                 ELSE {[step |-> Reject(p, p + 1),
                        m |-> [m1 EXCEPT !.position = p + 1]]}
        ELSE IF p = Len(h) THEN {[step |-> Done, m |-> m]}
        ELSE IF p + Len(n) <= Len(h) /\ slice_unchecked(h, p, p + Len(n)) = n
        THEN {[step |-> Match(p, p + Len(n)),
               m |-> [m EXCEPT !.position = p + Len(n)]]}
        ELSE {[step |-> Reject(p, b), m |-> [m EXCEPT !.position = b]] :
                  b \in (p + 1)..Len(h)}

\* matcher.next_back(): the mirror image, working down from m.end.
next_back(m) ==
    LET h == m.haystack
        n == m.needle
        e == m.end
    IN  IF m.impl = "Empty"
        THEN LET m1 == [m EXCEPT !.is_match_bw = ~m.is_match_bw]
             IN  IF m.is_match_bw THEN {[step |-> Match(e, e), m |-> m1]}
                 ELSE IF e <= 0 THEN {[step |-> Done, m |-> m1]}
                 ELSE {[step |-> Reject(e - 1, e),
                        m |-> [m1 EXCEPT !.end = e - 1]]}
        ELSE IF e = 0 THEN {[step |-> Done, m |-> m]}
        ELSE IF e - Len(n) >= 0 /\ slice_unchecked(h, e - Len(n), e) = n
        THEN {[step |-> Match(e - Len(n), e),
               m |-> [m EXCEPT !.end = e - Len(n)]]}
        ELSE {[step |-> Reject(a, e), m |-> [m EXCEPT !.end = a]] :
                  a \in 0..(e - 1)}

\* ------------------------------------------------------- the two methods
\* let mut trim_idx = 0;
InitLeftIdx(T) == 0

\* let mut trim_idx = self.len();
Mut_InitRightIdx(T) == 0

InitRightIdx(T) == Len(T)

\* for _ in 0..count: the body runs while the index is below count.
Mut_ForContinues(k, n) == k <= n

ForContinues(k, n) == k < n

\* SearchStep::Match(_, match_end) => trim_idx = match_end
Mut_LeftBoundary(s) == s.a

LeftBoundary(s) == s.b

\* SearchStep::Match(match_start, _) => trim_idx = match_start
Mut_RightBoundary(s) == s.b

RightBoundary(s) == s.a

\* _ => return Err(self)
Mut_LeftFailure(T, idx) == Err(slice_unchecked(T, idx, Len(T)))

LeftFailure(T, idx) == Err(T)

Mut_RightFailure(T, idx) == Err(slice_unchecked(T, 0, idx))

RightFailure(T, idx) == Err(T)

\* Ok(self.slice_unchecked(trim_idx, self.len()))
Mut_LeftSuccess(T, idx) == Ok(slice_unchecked(T, 0, idx))

LeftSuccess(T, idx) == Ok(slice_unchecked(T, idx, Len(T)))

\* Ok(self.slice_unchecked(0, trim_idx))
Mut_RightSuccess(T, idx) == Ok(slice_unchecked(T, idx, Len(T)))

RightSuccess(T, idx) == Ok(slice_unchecked(T, 0, idx))

\* The loop of trim_left_matches_exactly from iteration k on, as the set of
\* values the call can return.
RECURSIVE LeftLoop(_, _, _, _, _)
LeftLoop(T, m, idx, k, n) ==
    IF ForContinues(k, n)
    THEN UNION {IF o.step.kind = "Match"
                THEN LeftLoop(T, o.m, LeftBoundary(o.step), k + 1, n)
                ELSE {LeftFailure(T, idx)} : o \in next(m)}
    ELSE {LeftSuccess(T, idx)}

RECURSIVE RightLoop(_, _, _, _, _)
RightLoop(T, m, idx, k, n) ==
    IF ForContinues(k, n)
    THEN UNION {IF o.step.kind = "Match"
                THEN RightLoop(T, o.m, RightBoundary(o.step), k + 1, n)
                ELSE {RightFailure(T, idx)} : o \in next_back(m)}
    ELSE {RightSuccess(T, idx)}

trim_left_matches_exactly(T, P, n) ==
    LeftLoop(T, into_searcher(P, T), InitLeftIdx(T), 0, n)

trim_right_matches_exactly(T, P, n) ==
    RightLoop(T, into_searcher(P, T), InitRightIdx(T), 0, n)

\* ------------------------------------------------------------ state machine
\* A call that has built its searcher and set trim_idx, about to enter the
\* loop.
Init ==
    /\ text \in Texts
    /\ pat \in Patterns
    /\ count \in Counts
    /\ dir \in {"left", "right"}
    /\ matcher = into_searcher(pat, text)
    /\ trim_idx = IF dir = "left" THEN InitLeftIdx(text) ELSE InitRightIdx(text)
    /\ i = 0
    /\ step = NoStep
    /\ steps = 0
    /\ pc = "loop"
    /\ result = NoResult

\* One iteration of the left loop whose step is a Match.
LeftMatch ==
    /\ pc = "loop" /\ dir = "left" /\ ForContinues(i, count)
    /\ \E o \in next(matcher) :
          /\ o.step.kind = "Match"
          /\ matcher' = o.m
          /\ step' = o.step
          /\ trim_idx' = LeftBoundary(o.step)
    /\ i' = i + 1
    /\ steps' = steps + 1
    /\ UNCHANGED <<text, pat, count, dir, pc, result>>

\* One iteration of the left loop whose step is not a Match: return Err.
LeftOther ==
    /\ pc = "loop" /\ dir = "left" /\ ForContinues(i, count)
    /\ \E o \in next(matcher) :
          /\ o.step.kind # "Match"
          /\ matcher' = o.m
          /\ step' = o.step
    /\ steps' = steps + 1
    /\ result' = LeftFailure(text, trim_idx)
    /\ pc' = "done"
    /\ UNCHANGED <<text, pat, count, dir, trim_idx, i>>

\* The left loop has run count times: return the slice.
LeftReturn ==
    /\ pc = "loop" /\ dir = "left" /\ ~ForContinues(i, count)
    /\ result' = LeftSuccess(text, trim_idx)
    /\ pc' = "done"
    /\ UNCHANGED <<text, pat, count, dir, matcher, trim_idx, i, step, steps>>

RightMatch ==
    /\ pc = "loop" /\ dir = "right" /\ ForContinues(i, count)
    /\ \E o \in next_back(matcher) :
          /\ o.step.kind = "Match"
          /\ matcher' = o.m
          /\ step' = o.step
          /\ trim_idx' = RightBoundary(o.step)
    /\ i' = i + 1
    /\ steps' = steps + 1
    /\ UNCHANGED <<text, pat, count, dir, pc, result>>

RightOther ==
    /\ pc = "loop" /\ dir = "right" /\ ForContinues(i, count)
    /\ \E o \in next_back(matcher) :
          /\ o.step.kind # "Match"
          /\ matcher' = o.m
          /\ step' = o.step
    /\ steps' = steps + 1
    /\ result' = RightFailure(text, trim_idx)
    /\ pc' = "done"
    /\ UNCHANGED <<text, pat, count, dir, trim_idx, i>>

RightReturn ==
    /\ pc = "loop" /\ dir = "right" /\ ~ForContinues(i, count)
    /\ result' = RightSuccess(text, trim_idx)
    /\ pc' = "done"
    /\ UNCHANGED <<text, pat, count, dir, matcher, trim_idx, i, step, steps>>

Next ==
    \/ LeftMatch
    \/ LeftOther
    \/ LeftReturn
    \/ RightMatch
    \/ RightOther
    \/ RightReturn

Spec == Init /\ [][Next]_vars

\* The call is synchronous straight-line code: it keeps running until it
\* returns.
FairSpec == Init /\ [][Next]_vars /\ WF_vars(Next)

\* ------------------------------------------------------------------ claims
\* n back-to-back copies of P.
RECURSIVE Repeat(_, _)
Repeat(P, n) == IF n = 0 THEN <<>> ELSE P \o Repeat(P, n - 1)

StartsWith(T, X) == Len(X) <= Len(T) /\ SubSeq(T, 1, Len(X)) = X

EndsWith(T, X) == Len(X) <= Len(T) /\ SubSeq(T, Len(T) - Len(X) + 1, Len(T)) = X

Reverse(s) == [k \in 1..Len(s) |-> s[Len(s) + 1 - k]]

IsPalindrome(s) == s = Reverse(s)

Returned == pc = "done"

\* C1: with a non-empty literal pattern, trim_left_matches_exactly returns
\* Ok exactly when the text begins with count back-to-back copies of the
\* pattern, the value then being the text without its first
\* count * len(pattern) bytes; in every other case it returns Err.
C1_LeftExact ==
    (Returned /\ dir = "left" /\ pat # <<>>) =>
        IF StartsWith(text, Repeat(pat, count))
        THEN result = Ok(SubSeq(text, count * Len(pat) + 1, Len(text)))
        ELSE result.tag = "Err"

C1_Witness ==
    /\ Returned /\ dir = "left" /\ Len(pat) = 2 /\ count = 2
    /\ result.tag = "Ok" /\ result.val # <<>>

\* C2: with a non-empty literal pattern, trim_right_matches_exactly returns
\* Ok exactly when the text ends with count back-to-back copies of the
\* pattern, the value then being the text without its last
\* count * len(pattern) bytes; in every other case it returns Err.
C2_RightExact ==
    (Returned /\ dir = "right" /\ pat # <<>>) =>
        IF EndsWith(text, Repeat(pat, count))
        THEN result = Ok(SubSeq(text, 1, Len(text) - count * Len(pat)))
        ELSE result.tag = "Err"

C2_Witness ==
    /\ Returned /\ dir = "right" /\ Len(pat) = 2 /\ count = 2
    /\ result.tag = "Ok" /\ result.val # <<>>

\* C3: whenever either method returns Err, the value is the whole text, no
\* matter how many matches (0..count-1) were confirmed before the first step
\* that is not a Match; Ok is returned only with all count matches confirmed.
C3_AllOrNothing ==
    Returned =>
        /\ result.tag = "Err" => (result.val = text /\ i < count)
        /\ result.tag = "Ok" => i = count

\* A failure after some matches were confirmed and the boundary had moved.
C3_Witness ==
    /\ Returned /\ result.tag = "Err" /\ i = 2
    /\ trim_idx # (IF dir = "left" THEN 0 ELSE Len(text))

\* C4: with count 0 both methods return Ok(text) for every pattern, the
\* empty one and the ones that do not occur in the text included, and the
\* searcher is never advanced.
C4_ZeroCount ==
    (Returned /\ count = 0) =>
        /\ result = Ok(text)
        /\ steps = 0
        /\ matcher = into_searcher(pat, text)

\* Count 0 with a pattern that does not occur in the text.
C4_Witness ==
    /\ Returned /\ count = 0 /\ dir = "right" /\ pat = <<"b">>
    /\ text = <<"a", "a">> /\ result.tag = "Ok"

\* C5 (as stated): for every pattern, if trim_left_matches_exactly with
\* count n returns Ok(R), then with count n+1 it either fails or returns an
\* Ok value strictly shorter than R that is R with one more match trimmed;
\* it never returns Ok(R) again.
C5_Original ==
    (Returned /\ dir = "left" /\ result.tag = "Ok") =>
        \A r \in trim_left_matches_exactly(text, pat, count + 1) :
            \/ r.tag = "Err"
            \/ /\ r.tag = "Ok"
               /\ Len(r.val) < Len(result.val)
               /\ r \in trim_left_matches_exactly(result.val, pat, 1)

\* C5 (amended): the same, except for the empty pattern with n = 0, where
\* count 0 and count 1 both return Ok(text).
C5_Exactness ==
    (Returned /\ dir = "left" /\ result.tag = "Ok") =>
        \A r \in trim_left_matches_exactly(text, pat, count + 1) :
            IF pat = <<>> /\ count = 0
            THEN r = result /\ r = Ok(text)
            ELSE \/ r.tag = "Err"
                 \/ /\ r.tag = "Ok"
                    /\ Len(r.val) < Len(result.val)
                    /\ r \in trim_left_matches_exactly(result.val, pat, 1)

\* A success with count 1 that is followed by a success with count 2.
C5_Witness ==
    /\ Returned /\ dir = "left" /\ result.tag = "Ok" /\ count = 1 /\ Len(pat) = 2
    /\ \E r \in trim_left_matches_exactly(text, pat, count + 1) : r.tag = "Ok"

\* C6: successive confirmed matches never overlap: each match lies at or
\* beyond the boundary left by the previous one (from the start: it starts
\* at or after it; from the end: it ends at or before it).  Trimming "aaa"
\* with pattern "aa" and count 2 fails with Err("aaa") from either end.
C6_NoOverlap ==
    /\ [](Returned /\ text = <<"a", "a", "a">> /\ pat = <<"a", "a">> /\ count = 2
            => result = Err(<<"a", "a", "a">>))
    /\ [][(steps' = steps + 1 /\ step'.kind = "Match") =>
            /\ dir = "left" => step'.a >= trim_idx
            /\ dir = "right" => step'.b <= trim_idx
            /\ steps >= 1 /\ dir = "left" => step'.a >= step.b
            /\ steps >= 1 /\ dir = "right" => step'.b <= step.a]_vars

\* "aaa" trimmed of "aa" twice: one match confirmed, then the failure.
C6_Witness ==
    /\ Returned /\ text = <<"a", "a", "a">> /\ pat = <<"a", "a">> /\ count = 2
    /\ i = 1 /\ step.kind = "Reject" /\ result.tag = "Err"

\* C7: with the empty pattern both methods return Ok(text) for count 1 and
\* Err(text) for every count >= 2: the searcher reports one zero-length
\* Match at the end being trimmed and then a step that is not a Match.
C7_EmptyPattern ==
    (pat = <<>>) =>
        /\ (Returned /\ count = 1) => result = Ok(text)
        /\ (Returned /\ count >= 2) =>
              (result = Err(text) /\ steps = 2 /\ step.kind \in {"Reject", "Done"})
        /\ steps = 1 =>
              step = (IF dir = "left" THEN Match(0, 0)
                      ELSE Match(Len(text), Len(text)))
        /\ steps <= 2

C7_Witness ==
    /\ Returned /\ pat = <<>> /\ count = 3 /\ text # <<>> /\ result.tag = "Err"

\* C8: for a palindromic text and a palindromic pattern (a single character
\* in particular), the two methods return values of equal length, and one
\* returns Ok exactly when the other does.
C8_Symmetry ==
    (Returned /\ IsPalindrome(text) /\ IsPalindrome(pat)) =>
        \A r \in (IF dir = "left"
                  THEN trim_right_matches_exactly(text, pat, count)
                  ELSE trim_left_matches_exactly(text, pat, count)) :
            r.tag = result.tag /\ Len(r.val) = Len(result.val)

\* "abbba" is not trimmed by "a" twice from either end; "aabaa" is.
C8_Witness ==
    /\ Returned /\ IsPalindrome(text) /\ Len(text) = 5 /\ Len(pat) = 1
    /\ count = 2 /\ result.tag = "Ok" /\ Len(result.val) = 3

\* C9: every call returns, having advanced the searcher at most count
\* times: exactly count times when it returns Ok, and when it returns Err
\* the last step is the first that is not a Match, all steps before it
\* were Matches, and the searcher is advanced no further.
C9_StepBound ==
    /\ [](/\ steps <= count
          /\ (Returned /\ result.tag = "Ok") => (steps = count /\ i = count)
          /\ (Returned /\ result.tag = "Err") =>
                (step.kind \in {"Reject", "Done"} /\ steps = i + 1)
          /\ ~Returned => (steps = i /\ step.kind \in {"None", "Match"}))
    /\ [][Returned => (steps' = steps /\ matcher' = matcher)]_vars
    /\ <>Returned

\* A pattern matching zero-length spans, asked for more than it yields.
C9_Witness ==
    /\ Returned /\ pat = <<>> /\ text = <<>> /\ dir = "right" /\ count = 3
    /\ steps = 2 /\ step.kind = "Done" /\ result.tag = "Err"

\* C10: the trim boundary stays within 0..len(text); it is 0 (left) or
\* len(text) (right) before the first step and afterwards the offset the
\* searcher reported in its last Match (the end for the left trim, the
\* start for the right trim); it changes only on a Match step and moves one
\* way only; the slice returned on success is text[trim_idx..len] or
\* text[0..trim_idx], within range.
C10_Boundary ==
    /\ [](/\ trim_idx \in 0..Len(text)
          /\ i = 0 => trim_idx = (IF dir = "left" THEN 0 ELSE Len(text))
          /\ step.kind = "Match" =>
                trim_idx = (IF dir = "left" THEN step.b ELSE step.a)
          /\ (Returned /\ result.tag = "Ok") =>
                /\ Len(result.val) =
                      (IF dir = "left" THEN Len(text) - trim_idx ELSE trim_idx)
                /\ IF dir = "left" THEN EndsWith(text, result.val)
                   ELSE StartsWith(text, result.val))
    /\ [][/\ trim_idx' # trim_idx => (step'.kind = "Match" /\ steps' = steps + 1)
          /\ dir = "left" => trim_idx' >= trim_idx
          /\ dir = "right" => trim_idx' <= trim_idx]_vars

\* The boundary after two matches of a two-byte pattern.
C10_Witness ==
    /\ dir = "right" /\ i = 2 /\ Len(pat) = 2 /\ step.kind = "Match"
    /\ trim_idx = Len(text) - 4 /\ Returned

====
